---- MODULE Spec2Model ----
(***************************************************************************)
(* The audio engine of the breathing app (the useAudio hook: the audio     *)
(* context, the one-shot cues and the background soundscape) and the       *)
(* session screen that mounts it and drives it.                            *)
(*                                                                         *)
(* Time is kept relative: every scheduled stop, every timer and every      *)
(* fade-out ramp carries the number of seconds left until it is due, and   *)
(* Tick lets one second pass for all of them at once. The stop of a cue    *)
(* is kept in milliseconds, its profile's durations being fractions of a   *)
(* second.                                                                 *)
(***************************************************************************)
EXTENDS Integers, Sequences, FiniteSets

\* ---------------------------------------------------------------- bounds
\* Number of startBackgroundMusic calls made on the engine.
MaxCalls == 2
\* Number of strikes a TibetanSingingBowl plays, the first included.
MaxStrikes == 2

\* Number of strikes a BreathingBell plays, the first included.
MaxBellStrikes == 4
\* Number of voices the platform can enumerate.
MaxVoices == 2
\* Number of utterances speak() issues.
MaxUtterances == 2
\* Number of speak() calls skipped with a warning.
MaxWarnings == 2
\* Seconds a retention is held before the user taps.
MaxRetention == 2
\* Number of strikes and of timers of the engine of src/hooks/useAudio.ts.
MaxHookStrikes == 4
\* Number of cues playSound plays.
MaxCues == 1
\* Number of session screens mounted one after the other.
MaxMounts == 2
\* Number of failed attempts to construct the audio context.
MaxLogs == 2

Calls == 1..MaxCalls

\* ------------------------------------------------------- program constants
\* A source that was started and has no stop scheduled.
Never == -1
FadeOutSecs == 2
DisconnectDelaySecs == 2
BellDuration == 3
\* Mutant: the last two delays are swapped.
swappedPattern == <<4, 8, 7>>

breathPattern == <<4, 7, 8>>
Harmonics == 1..5
\* decay = 8 + Math.random() * 4, drawn for each harmonic of a strike: the
\* draws the model makes (all short, all long, mixed).
DecayDraws ==
    {[h \in Harmonics |-> 8], [h \in Harmonics |-> 11],
     [h \in Harmonics |-> IF h % 2 = 1 THEN 11 ELSE 8]}
\* setInterval(playBowl, 12000 + Math.random() * 5000): the draws the model makes.
IntervalChoices == {12, 16}

Off == "off"
AmbientHum == "hum"
TibetanSingingBowl == "TibetanSingingBowl"
BreathingBell == "BreathingBell"
GentleRain == "Meditation"
OmChant == "om"
BackgroundMusicType ==
    {Off, AmbientHum, TibetanSingingBowl, BreathingBell, GentleRain, OmChant}

\* The tone table; duration in milliseconds, gain in 1/10000.
soundProfiles ==
    [inhale |-> [freq |-> 660, gain |-> 2000, duration |-> 150, type |-> "sine"],
     exhale |-> [freq |-> 440, gain |-> 1500, duration |-> 200, type |-> "sine"],
     chime  |-> [freq |-> 880, gain |-> 4000, duration |-> 200,
                 type |-> "triangle"],
     hold   |-> [freq |-> 523, gain |-> 3000, duration |-> 500, type |-> "sine"],
     bell   |-> [freq |-> 523, gain |-> 2000, duration |-> 3000, type |-> "sine"]]
CueNames == DOMAIN soundProfiles

Null == [type |-> "null", owner |-> 0, intervalId |-> 0]
NoTimeout == <<0, 0>>

VARIABLES
    supported,               \* the platform can construct an AudioContext
    audioContextRef,         \* "null" or "ctx"
    backgroundMusicNodesRef, \* Null or the MusicNodes record
    breathingBellTimeoutRef, \* NoTimeout or the handle <<call, strike>>
    pc,                      \* position of each startBackgroundMusic call
    musicType,               \* the kind each call was made with
    cancelled,               \* what each call's isCancelled() returns
    outcome,                 \* how each call returned
    allNodes,                \* the allNodes array of each call
    breathPhase,             \* breathPhase of each call's bell closure
    strikes,                 \* strikes played by each call
    timers,                  \* pending setInterval / setTimeout handles
    fadeLeft,                \* seconds until a call's master gain reaches 0
    stopped,                 \* calls whose soundscape stopBackgroundMusic took
    strikesAtStop,           \* strikes a call had played when it was stopped
    cleaned,                 \* calls cancelled by their caller before a stop
    overlapped,              \* calls made while an earlier call was in flight
    stopsInRow,              \* stopBackgroundMusic() calls in a row, up to 2
    sessPhase,               \* the session screen's music effect
    sessType,                \* its backgroundMusicType prop
    sessCall,                \* the call whose flag the effect's closure holds
    mounts,                  \* session screens (useAudio instances) so far
    cueNodes,                \* the nodes playSound created, oldest first
    lastCue,                 \* the cue the step just taken played, or "none"
    ctxConstructed,          \* AudioContext objects constructed so far
    unsupportedLogs,         \* "Web Audio API is not supported" errors logged
    loadErrorLogged,         \* calls that logged "Error loading or playing"
    surfaced,                \* operations an exception escaped from
    gainEvents,              \* automation events the cue just played put on
                             \* its gain, in the order of the calls
    speechSupported,         \* "speechSynthesis" in window
    platformVoices,          \* how many voices getVoices() returns now
    onvoiceschanged,         \* window.speechSynthesis.onvoiceschanged is set
    voices,                  \* the voices state: how many voices it holds
    isSpeechReady,           \* the isSpeechReady state
    speakReady,              \* isSpeechReady as the current speak closure has it
    utterances,              \* utterances handed to speechSynthesis.speak
    speechWarnings,          \* "Speech engine not ready, skipping." warnings
    speechPhase,             \* "rendered", "mounted" or "unmounted"
    breathsPerRound,         \* the session screen's props
    totalRounds,
    fastPacedBreathing,
    enableSpokenGuidance,
    screen,                  \* the screen App shows
    phase,                   \* the session screen's state
    currentRound,
    breathCount,
    timer,
    retentionTimes,
    interval,                \* the timer the phase effect holds, if any
    finishTimeout,           \* the pending setTimeout of handleFinishSession
    sessionHistory,          \* App's sessionHistory state
    storedHistory,           \* the history saved in localStorage
    history0,                \* the history when the session began
    roundCues,               \* cues played since this round's breathing began
    lastPrompt,              \* the last prompt handed to speak
    finishes,                \* calls of App's handleFinishSession
    storedSettings,          \* localStorage's item "wimhof-settings"
    settingsArg,             \* the argument of the last saveSettings
    savedFresh,              \* saveSettings ran and nothing wrote since
    setItemThrew,            \* the last setItem threw
    loadedSettings,          \* what the last getSettings returned
    storeOp,                 \* the last operation on the storage
    storeThrown,             \* the operations an exception escaped from
    storeLogged,             \* console.error was called by the storage
    hookMusic,               \* backgroundMusicNodesRef of src/hooks/useAudio.ts
    hookTimers,              \* its pending setInterval and setTimeout timers
    hookNextId,              \* the id the next timer gets
    hookStrikes,             \* bowl and bell strikes played
    hookSilenced,            \* stopBackgroundMusic ran and no start since
    hookLate                 \* strikes played while silenced

vars == <<supported, audioContextRef, backgroundMusicNodesRef,
          breathingBellTimeoutRef, pc, musicType, cancelled, outcome,
          allNodes, breathPhase, strikes, timers, fadeLeft, stopped,
          strikesAtStop, cleaned, overlapped, stopsInRow, sessPhase,
          sessType, sessCall, mounts, cueNodes, lastCue, ctxConstructed,
          unsupportedLogs, loadErrorLogged, surfaced, gainEvents,
          speechSupported, platformVoices, onvoiceschanged, voices,
          isSpeechReady, speakReady, utterances, speechWarnings, speechPhase,
          breathsPerRound, totalRounds, fastPacedBreathing,
          enableSpokenGuidance, screen, phase, currentRound, breathCount,
          timer, retentionTimes, interval, finishTimeout, sessionHistory,
          storedHistory, history0, roundCues, lastPrompt, finishes,
          storedSettings, settingsArg, savedFresh, setItemThrew,
          loadedSettings, storeOp, storeThrown, storeLogged,
          hookMusic, hookTimers, hookNextId, hookStrikes, hookSilenced,
          hookLate>>

\* The variables of the audio engine and of the session's music effect.
engineVars == <<supported, audioContextRef, backgroundMusicNodesRef,
                breathingBellTimeoutRef, pc, musicType, cancelled, outcome,
                allNodes, breathPhase, strikes, timers, fadeLeft, stopped,
                strikesAtStop, cleaned, overlapped, stopsInRow, sessPhase,
                sessType, sessCall, mounts, cueNodes, lastCue, ctxConstructed,
                unsupportedLogs, loadErrorLogged, surfaced, gainEvents>>
\* The variables of the engine of src/hooks/useAudio.ts.
hookVars == <<hookMusic, hookTimers, hookNextId, hookStrikes, hookSilenced,
              hookLate>>
\* The variables of both engines.
audioVars == <<engineVars, hookVars>>
speechVars == <<speechSupported, platformVoices, onvoiceschanged, voices,
                isSpeechReady, speakReady, utterances, speechWarnings, speechPhase>>
roundVars == <<breathsPerRound, totalRounds, fastPacedBreathing,
               enableSpokenGuidance, screen, phase, currentRound, breathCount,
               timer, retentionTimes, interval, finishTimeout, sessionHistory,
               storedHistory, history0, roundCues, lastPrompt, finishes>>
storeVars == <<storedSettings, settingsArg, savedFresh, setItemThrew,
               loadedSettings, storeOp, storeThrown, storeLogged>>
\* What a step of the audio engine leaves alone.
uiVars == <<speechVars, roundVars, storeVars, hookVars>>

sessVars == <<sessPhase, sessType, sessCall, mounts>>
diagVars == <<ctxConstructed, unsupportedLogs, loadErrorLogged, surfaced>>

\* ------------------------------------------------------------ audio nodes
Gain == [type |-> "gain", connected |-> TRUE, stopIn |-> Never]
\* The gain startBackgroundMusic creates first and connects to the output.
MasterGain == [type |-> "masterGain", connected |-> TRUE, stopIn |-> Never]
\* An oscillator or buffer source, started, stopping in d seconds.
Source(t, d) == [type |-> t, connected |-> TRUE, stopIn |-> d]

Stoppable(n) == n.type \in {"osc", "src"}
Playing(n) == Stoppable(n) /\ n.stopIn # 0

createBowlHarmonic(decay) == <<Source("osc", decay), Gain>>

\* Mutant: a strike plays the fundamental only.
playFundamental(dec) == createBowlHarmonic(dec[1])

playBowl(dec) ==
    createBowlHarmonic(dec[1]) \o createBowlHarmonic(dec[2])
        \o createBowlHarmonic(dec[3]) \o createBowlHarmonic(dec[4])
        \o createBowlHarmonic(dec[5])

\* Mutant: every tone stops after the default 100 ms.
playDefaultTone(duration) == <<Source("osc", 100), Gain>>

playOneShotTone(duration) == <<Source("osc", duration), Gain>>

\* playOneShotTone's calls on gainNode.gain, in order; at in milliseconds
\* after context.currentTime, value in 1/10000.
envelope(profile) ==
    <<[event |-> "setValueAtTime", value |-> profile.gain, at |-> 0],
      [event |-> "exponentialRampToValueAtTime", value |-> 1,
       at |-> profile.duration]>>

\* A step that is not a playSound call.
NoCuePlayed == lastCue' = "none" /\ gainEvents' = <<>>

\* playOneShotTone's wiring: osc.connect(gainNode); gainNode.connect(output).
Wired(tone, output) ==
    [i \in DOMAIN tone |->
        [type |-> tone[i].type, connected |-> tone[i].connected,
         stopIn |-> tone[i].stopIn,
         to |-> IF tone[i].type = "osc" THEN "gain" ELSE output]]

\* ---------------------------------------------------------- audio context
\* Mutant: a context is constructed on every call.
AlwaysConstructs == TRUE

\* if (!audioContextRef.current): the call tries to construct a context.
Constructs == audioContextRef = "null"

\* getAudioContext: the value of audioContextRef after the call.
getAudioContext ==
    IF Constructs /\ supported THEN "ctx" ELSE audioContextRef

\* The places an exception can be raised at are inside a try block.
ConstructInTry == TRUE
LoadInTry == TRUE
\* Mutant: node.stop(fadeOutTime) without its try block.
StopOutsideTry == FALSE

StopInTry == TRUE

\* The operation op, when an exception is raised in it outside a try.
Escaped(op, raised, inTry) == IF raised /\ ~inTry THEN {op} ELSE {}

\* One getAudioContext() call made by an operation: the context is
\* constructed if there is none, and a failed construction is logged.
ContextCall ==
    /\ (Constructs /\ ~supported) => unsupportedLogs < MaxLogs
    /\ audioContextRef' = getAudioContext
    /\ ctxConstructed' =
          IF Constructs /\ supported THEN ctxConstructed + 1 ELSE ctxConstructed
    /\ unsupportedLogs' =
          IF Constructs /\ ~supported THEN unsupportedLogs + 1
          ELSE unsupportedLogs


\* Mutant: the caller's predicate is dropped for the default () => false.
defaultIsCancelled(flag) == FALSE

\* The predicate of a call, given the caller's flag: the caller's
\* getIsCancelled, or () => false when none was passed.
isCancelled(flag) == flag

\* ------------------------------------------------------------- playSound
\* Mutant: the cue is connected to the soundscape's master gain.
cueOutputMaster == "masterGain"

\* The output playSound hands to playOneShotTone: context.destination.
cueOutput == "destination"

\* playSound(name), without what its caller does around it.
PlayBody(name) ==
    /\ ContextCall
    /\ surfaced' = surfaced \cup
          Escaped("playSound", Constructs /\ ~supported, ConstructInTry)
    /\ lastCue' = name
    /\ UNCHANGED uiVars
    /\ gainEvents' =
          IF getAudioContext = "null" THEN <<>>
          ELSE envelope(soundProfiles[name])
    /\ cueNodes' =
          IF getAudioContext = "null" THEN cueNodes
          ELSE cueNodes \o
               Wired(playOneShotTone(soundProfiles[name].duration), cueOutput)
    /\ stopsInRow' = 0
    /\ UNCHANGED <<supported, backgroundMusicNodesRef, breathingBellTimeoutRef,
                   pc, musicType, cancelled, outcome, allNodes, breathPhase,
                   strikes, timers, fadeLeft, stopped, strikesAtStop, cleaned,
                   overlapped, loadErrorLogged>>

\* The session screen plays a cue (a phase begins, the session ends).
playSound(name) ==
    /\ sessPhase = "running"
    /\ Len(cueNodes) < 2 * MaxCues
    /\ PlayBody(name)
    /\ UNCHANGED sessVars

\* --------------------------------------------------------------- timers
IntervalTimer(s, period) ==
    [kind |-> "interval", owner |-> s, gen |-> 0, left |-> period,
     period |-> period]
BellTimer(s, g, delay) ==
    [kind |-> "bell", owner |-> s, gen |-> g, left |-> delay, period |-> 0]
\* Mutant: the nodes are disconnected without a delay.
DisconnectAtOnce(s) ==
    [kind |-> "disconnect", owner |-> s,
     gen |-> Cardinality({t \in timers : t.kind = "disconnect" /\ t.owner = s}),
     left |-> 0, period |-> 0]

DisconnectTimer(s) ==
    [kind |-> "disconnect", owner |-> s,
     gen |-> Cardinality({t \in timers : t.kind = "disconnect" /\ t.owner = s}),
     left |-> DisconnectDelaySecs, period |-> 0]

Pending(k, s) == {t \in timers : t.kind = k /\ t.owner = s}
\* The interval and bell timers a call created that are still pending.
TimersOf(s) == Pending("interval", s) \cup Pending("bell", s)

\* ------------------------------------------------- startBackgroundMusic
\* The cancellation branch before promotion: stop() and disconnect() on
\* every node of allNodes.
CancelCleanup(list) ==
    [i \in DOMAIN list |->
        [list[i] EXCEPT !.stopIn = IF Playing(list[i]) THEN 0 ELSE @,
                        !.connected = FALSE]]

\* Mutant: the call returns before the record is written.
FinishBeforePromote(s, kind, list, iv, c) ==
    /\ allNodes' = [allNodes EXCEPT ![s] = IF c THEN CancelCleanup(list) ELSE list]
    /\ backgroundMusicNodesRef' = backgroundMusicNodesRef
    /\ outcome' = [outcome EXCEPT ![s] = IF c THEN "cancelled" ELSE "promoted"]
    /\ pc' = [pc EXCEPT ![s] = "done"]

\* The final isCancelled() check: clean up and return, or promote.
FinishStart(s, kind, list, iv, c) ==
    /\ allNodes' = [allNodes EXCEPT ![s] = IF c THEN CancelCleanup(list) ELSE list]
    /\ backgroundMusicNodesRef' =
          IF c THEN backgroundMusicNodesRef
          ELSE [type |-> kind, owner |-> s, intervalId |-> iv]
    /\ outcome' = [outcome EXCEPT ![s] = IF c THEN "cancelled" ELSE "promoted"]
    /\ pc' = [pc EXCEPT ![s] = "done"]

\* Mutant: the guard does not look at the soundscape record.
GuardIgnoresRecord(s, kind) ==
    \/ getAudioContext = "null"
    \/ kind = Off
    \/ isCancelled(cancelled[s])

\* Mutant: the guard does not call isCancelled().
GuardIgnoresPredicate(s, kind) ==
    \/ getAudioContext = "null"
    \/ backgroundMusicNodesRef # Null
    \/ kind = Off

\* The guard at the entry of startBackgroundMusic: the call returns at once.
EntryGuard(s, kind) ==
    \/ getAudioContext = "null"
    \/ backgroundMusicNodesRef # Null
    \/ kind = Off
    \/ isCancelled(cancelled[s])

InFlight(s) == pc[s] \in {"fetch", "arrayBuffer", "decode"}

\* What the predicate may do by itself between two checks of one
\* synchronous run: the session's closure flag cannot change there.
Flips == IF sessPhase = "free" THEN BOOLEAN ELSE {FALSE}

\* The call up to its first await (GentleRain, OmChant) or to its return.
\* flipBell and flipFinal: the predicate turns true by itself before the
\* check inside scheduleNextBell, or before the final check.
StartBody(s, kind) ==
    /\ pc[s] = "new"
    /\ \A r \in Calls : r < s => pc[r] # "new"
    /\ ContextCall
    /\ surfaced' = surfaced \cup
          Escaped("startBackgroundMusic", Constructs /\ ~supported,
                  ConstructInTry)
    /\ NoCuePlayed
    /\ UNCHANGED uiVars
    /\ UNCHANGED <<cueNodes, loadErrorLogged>>
    /\ musicType' = [musicType EXCEPT ![s] = kind]
    /\ overlapped' = IF \E r \in Calls : InFlight(r) /\ ~cancelled[r]
                     THEN overlapped \cup {s} ELSE overlapped
    /\ stopsInRow' = 0
    /\ UNCHANGED <<supported, fadeLeft, stopped, strikesAtStop, cleaned>>
    /\ IF EntryGuard(s, kind)
       THEN /\ pc' = [pc EXCEPT ![s] = "done"]
            /\ outcome' = [outcome EXCEPT ![s] = "noop"]
            /\ UNCHANGED <<backgroundMusicNodesRef, breathingBellTimeoutRef,
                           cancelled, allNodes, breathPhase, strikes, timers>>
       ELSE
         CASE kind = AmbientHum ->
                \E flipFinal \in Flips :
                  /\ cancelled' = [cancelled EXCEPT ![s] = @ \/ flipFinal]
                  /\ FinishStart(s, kind,
                        <<MasterGain, Source("osc", Never), Source("osc", Never)>>,
                        0, isCancelled(cancelled'[s]))
                  /\ UNCHANGED <<breathingBellTimeoutRef, breathPhase,
                                 strikes, timers>>
           [] kind = TibetanSingingBowl ->
                \E dec \in DecayDraws,
                   period \in IntervalChoices, flipFinal \in Flips :
                  /\ cancelled' = [cancelled EXCEPT ![s] = @ \/ flipFinal]
                  /\ strikes' = [strikes EXCEPT ![s] = 1]
                  /\ timers' = timers \cup {IntervalTimer(s, period)}
                  /\ FinishStart(s, kind, <<MasterGain>> \o playBowl(dec), s,
                        isCancelled(cancelled'[s]))
                  /\ UNCHANGED <<breathingBellTimeoutRef, breathPhase>>
           [] kind = BreathingBell ->
                \E flipBell, flipFinal \in Flips :
                  LET inBell == isCancelled(cancelled[s] \/ flipBell)
                  IN
                  /\ cancelled' = [cancelled EXCEPT ![s] = @ \/ flipBell \/ flipFinal]
                  /\ IF inBell
                     THEN /\ FinishStart(s, kind, <<MasterGain>>, 0,
                                isCancelled(cancelled'[s]))
                          /\ UNCHANGED <<breathingBellTimeoutRef, breathPhase,
                                         strikes, timers>>
                     ELSE /\ strikes' = [strikes EXCEPT ![s] = 1]
                          /\ breathPhase' = [breathPhase EXCEPT ![s] = 1]
                          /\ timers' = timers \cup {BellTimer(s, 1, breathPattern[1])}
                          /\ breathingBellTimeoutRef' = <<s, 1>>
                          /\ FinishStart(s, kind,
                                <<MasterGain>> \o playOneShotTone(BellDuration), 0,
                                isCancelled(cancelled'[s]))
           [] kind \in {GentleRain, OmChant} ->
                /\ pc' = [pc EXCEPT ![s] = "fetch"]
                /\ allNodes' = [allNodes EXCEPT ![s] = <<MasterGain>>]
                /\ UNCHANGED <<backgroundMusicNodesRef, breathingBellTimeoutRef,
                               cancelled, outcome, breathPhase, strikes, timers>>

startBackgroundMusic(s, kind) ==
    /\ sessPhase = "free"
    /\ StartBody(s, kind)
    /\ UNCHANGED sessVars

\* Mutant: the catch block logs every failure.
LogsEveryFailure(flag) == TRUE

\* The catch block of the sample load: if (!isCancelled()) console.error(..).
LogsLoadError(flag) == ~isCancelled(flag)

\* An await of the sample load settles: fetch, arrayBuffer, then decode.
\* ok = FALSE is a rejection, caught by the catch block.
\* Mutant: a checkpoint also sees a stop that has just been made.
CheckpointSeesStop(s) == isCancelled(cancelled[s]) \/ stopsInRow > 0

\* if (isCancelled()) return; after an await of the load.
Checkpoint(s) == isCancelled(cancelled[s])

LoadStep(s, ok) ==
    /\ InFlight(s)
    /\ sessPhase # "effect"
    /\ UNCHANGED <<supported, audioContextRef, breathingBellTimeoutRef,
                   musicType, breathPhase, strikes, timers, fadeLeft, stopped,
                   strikesAtStop, cleaned, overlapped, sessVars, cueNodes,
                   ctxConstructed, unsupportedLogs>>
    /\ stopsInRow' = 0
    /\ NoCuePlayed
    /\ UNCHANGED uiVars
    /\ IF ~ok
       THEN /\ pc' = [pc EXCEPT ![s] = "done"]
            /\ outcome' = [outcome EXCEPT ![s] = "failed"]
            /\ loadErrorLogged' =
                  IF LogsLoadError(cancelled[s]) THEN loadErrorLogged \cup {s}
                  ELSE loadErrorLogged
            /\ surfaced' = surfaced \cup
                  Escaped("startBackgroundMusic", TRUE, LoadInTry)
            /\ UNCHANGED <<backgroundMusicNodesRef, cancelled, allNodes>>
       ELSE IF Checkpoint(s)
       THEN /\ pc' = [pc EXCEPT ![s] = "done"]
            /\ outcome' = [outcome EXCEPT ![s] = "cancelled"]
            /\ UNCHANGED <<backgroundMusicNodesRef, cancelled, allNodes,
                           loadErrorLogged, surfaced>>
       ELSE IF pc[s] # "decode"
       THEN /\ pc' = [pc EXCEPT ![s] = IF pc[s] = "fetch" THEN "arrayBuffer"
                                       ELSE "decode"]
            /\ UNCHANGED <<backgroundMusicNodesRef, cancelled, outcome,
                           allNodes, loadErrorLogged, surfaced>>
       ELSE \E flipFinal \in Flips :
            /\ UNCHANGED <<loadErrorLogged, surfaced>>
            /\ cancelled' = [cancelled EXCEPT ![s] = @ \/ flipFinal]
            /\ FinishStart(s, musicType[s],
                  Append(allNodes[s], Source("src", Never)), 0,
                  isCancelled(cancelled'[s]))


\* -------------------------------------------------- stopBackgroundMusic
\* Mutant: only the interval is cleared, the bell timeout is forgotten.
ClearedIntervalOnly(music) ==
    {t \in timers : ~(t.kind = "interval" /\ t.owner = music.intervalId)}

\* clearTimeout(breathingBellTimeoutRef.current) and
\* clearInterval(music.intervalId).
ClearedTimers(music) ==
    {t \in timers :
        /\ ~(t.kind = "bell" /\ <<t.owner, t.gen>> = breathingBellTimeoutRef)
        /\ ~(t.kind = "interval" /\ t.owner = music.intervalId)}

\* Mutant: node.stop() without a time, the source is cut at once.
StopNodeNow(n) == IF Playing(n) THEN [n EXCEPT !.stopIn = 0] ELSE n

\* Mutant: no stop is scheduled on the node.
StopNodeNever(n) == n

\* node.stop(fadeOutTime): replaces the stop time of a source that is still
\* playing; a source that has already stopped is not affected.
StopNodeAt(n) ==
    IF Playing(n) THEN [n EXCEPT !.stopIn = FadeOutSecs] ELSE n

\* Mutant: the record is not cleared.
RecordKept == backgroundMusicNodesRef

\* backgroundMusicNodesRef.current = null, the last statement of the stop.
RecordAfterStop == Null

\* A source of the list has stopped by itself: stop() on it may raise an
\* exception, depending on the platform.
AlreadyStopped(list) ==
    \E i \in DOMAIN list : Stoppable(list[i]) /\ ~Playing(list[i])

\* stopBackgroundMusic(), without what its caller does around it.
StopBody ==
    LET music == backgroundMusicNodesRef
    IN
    /\ ContextCall
    /\ stopsInRow' = IF stopsInRow = 0 THEN 1 ELSE 2
    /\ NoCuePlayed
    /\ UNCHANGED uiVars
    /\ UNCHANGED <<supported, pc, musicType, outcome, breathPhase, strikes,
                   overlapped, cueNodes, loadErrorLogged>>
    /\ IF getAudioContext = "null" \/ music = Null
       THEN /\ surfaced' = surfaced \cup
                  Escaped("stopBackgroundMusic", Constructs /\ ~supported,
                          ConstructInTry)
            /\ UNCHANGED <<backgroundMusicNodesRef, breathingBellTimeoutRef,
                           allNodes, timers, fadeLeft, stopped, strikesAtStop>>
       ELSE /\ \E raises \in BOOLEAN :
                 surfaced' = surfaced \cup
                    Escaped("stopBackgroundMusic",
                            raises /\ AlreadyStopped(allNodes[music.owner]),
                            StopInTry)
            /\ timers' = ClearedTimers(music) \cup {DisconnectTimer(music.owner)}
            /\ breathingBellTimeoutRef' = NoTimeout
            /\ fadeLeft' = [fadeLeft EXCEPT ![music.owner] = FadeOutSecs]
            /\ allNodes' = [allNodes EXCEPT ![music.owner] =
                  [i \in DOMAIN @ |-> StopNodeAt(@[i])]]
            /\ backgroundMusicNodesRef' = RecordAfterStop
            /\ stopped' = stopped \cup {music.owner}
            /\ strikesAtStop' = [strikesAtStop EXCEPT ![music.owner] = strikes[music.owner]]

\* The calls whose caller has set the flag and then called stop.
CleanedBy(flags) == {s \in Calls : pc[s] # "new" /\ flags[s]}

stopBackgroundMusic ==
    /\ sessPhase = "free"
    /\ StopBody
    /\ cleaned' = cleaned \cup CleanedBy(cancelled)
    /\ UNCHANGED <<cancelled, sessVars>>

\* The caller of call s sets the flag its predicate reads.
SetCancelled(s) ==
    /\ sessPhase = "free"
    /\ ~cancelled[s]
    /\ \A r \in Calls : r < s => pc[r] # "new"
    /\ cancelled' = [cancelled EXCEPT ![s] = TRUE]
    /\ stopsInRow' = 0
    /\ NoCuePlayed
    /\ UNCHANGED uiVars
    /\ UNCHANGED <<cueNodes, diagVars>>
    /\ UNCHANGED <<supported, audioContextRef, backgroundMusicNodesRef,
                   breathingBellTimeoutRef, pc, musicType, outcome, allNodes,
                   breathPhase, strikes, timers, fadeLeft, stopped,
                   strikesAtStop, cleaned, overlapped, sessVars>>

\* ----------------------------------------------------- timer callbacks
\* Mutant: a strike puts its nodes at the front of the list.
FirePrepending(t) ==
    /\ t \in timers /\ t.kind = "interval" /\ t.left = 0
    /\ sessPhase # "effect"
    /\ strikes[t.owner] < MaxStrikes
    /\ \E dec \in DecayDraws :
         allNodes' = [allNodes EXCEPT ![t.owner] = playBowl(dec) \o @]
    /\ strikes' = [strikes EXCEPT ![t.owner] = @ + 1]
    /\ timers' = (timers \ {t}) \cup {[t EXCEPT !.left = t.period]}
    /\ stopsInRow' = 0
    /\ NoCuePlayed
    /\ UNCHANGED uiVars
    /\ UNCHANGED <<cueNodes, diagVars>>
    /\ UNCHANGED <<supported, audioContextRef, backgroundMusicNodesRef,
                   breathingBellTimeoutRef, pc, musicType, cancelled, outcome,
                   breathPhase, fadeLeft, stopped, strikesAtStop, cleaned,
                   overlapped, sessVars>>

\* The setInterval callback of a TibetanSingingBowl: playBowl.
FireInterval(t) ==
    /\ t \in timers /\ t.kind = "interval" /\ t.left = 0
    /\ sessPhase # "effect"
    /\ strikes[t.owner] < MaxStrikes
    /\ \E dec \in DecayDraws :
         allNodes' = [allNodes EXCEPT ![t.owner] = @ \o playBowl(dec)]
    /\ strikes' = [strikes EXCEPT ![t.owner] = @ + 1]
    /\ timers' = (timers \ {t}) \cup {[t EXCEPT !.left = t.period]}
    /\ stopsInRow' = 0
    /\ NoCuePlayed
    /\ UNCHANGED uiVars
    /\ UNCHANGED <<cueNodes, diagVars>>
    /\ UNCHANGED <<supported, audioContextRef, backgroundMusicNodesRef,
                   breathingBellTimeoutRef, pc, musicType, cancelled, outcome,
                   breathPhase, fadeLeft, stopped, strikesAtStop, cleaned,
                   overlapped, sessVars>>

\* Mutant: the bell timeout does not ask isCancelled().
FireBellUnchecked(t) ==
    /\ t \in timers /\ t.kind = "bell" /\ t.left = 0
    /\ sessPhase # "effect"
    /\ stopsInRow' = 0
    /\ NoCuePlayed
    /\ UNCHANGED uiVars
    /\ UNCHANGED <<cueNodes, diagVars>>
    /\ UNCHANGED <<supported, audioContextRef, backgroundMusicNodesRef, pc,
                   musicType, cancelled, outcome, fadeLeft, stopped,
                   strikesAtStop, cleaned, overlapped, sessVars>>
    /\ IF FALSE
       THEN /\ timers' = timers \ {t}
            /\ UNCHANGED <<breathingBellTimeoutRef, allNodes, breathPhase, strikes>>
       ELSE /\ strikes[t.owner] < MaxBellStrikes
            /\ allNodes' = [allNodes EXCEPT ![t.owner] =
                  @ \o playOneShotTone(BellDuration)]
            /\ strikes' = [strikes EXCEPT ![t.owner] = @ + 1]
            /\ breathPhase' = [breathPhase EXCEPT ![t.owner] =
                  (@ + 1) % Len(breathPattern)]
            /\ timers' = (timers \ {t}) \cup
                  {BellTimer(t.owner, t.gen + 1,
                             breathPattern[breathPhase[t.owner] + 1])}
            /\ breathingBellTimeoutRef' = <<t.owner, t.gen + 1>>

\* The setTimeout callback of a BreathingBell: scheduleNextBell.
FireBell(t) ==
    /\ t \in timers /\ t.kind = "bell" /\ t.left = 0
    /\ sessPhase # "effect"
    /\ stopsInRow' = 0
    /\ NoCuePlayed
    /\ UNCHANGED uiVars
    /\ UNCHANGED <<cueNodes, diagVars>>
    /\ UNCHANGED <<supported, audioContextRef, backgroundMusicNodesRef, pc,
                   musicType, cancelled, outcome, fadeLeft, stopped,
                   strikesAtStop, cleaned, overlapped, sessVars>>
    /\ IF isCancelled(cancelled[t.owner])
       THEN /\ timers' = timers \ {t}
            /\ UNCHANGED <<breathingBellTimeoutRef, allNodes, breathPhase, strikes>>
       ELSE /\ strikes[t.owner] < MaxBellStrikes
            /\ allNodes' = [allNodes EXCEPT ![t.owner] =
                  @ \o playOneShotTone(BellDuration)]
            /\ strikes' = [strikes EXCEPT ![t.owner] = @ + 1]
            /\ breathPhase' = [breathPhase EXCEPT ![t.owner] =
                  (@ + 1) % Len(breathPattern)]
            /\ timers' = (timers \ {t}) \cup
                  {BellTimer(t.owner, t.gen + 1,
                             breathPattern[breathPhase[t.owner] + 1])}
            /\ breathingBellTimeoutRef' = <<t.owner, t.gen + 1>>

\* The setTimeout callback of stopBackgroundMusic: disconnect every node.
FireDisconnect(t) ==
    /\ t \in timers /\ t.kind = "disconnect" /\ t.left = 0
    /\ sessPhase # "effect"
    /\ allNodes' = [allNodes EXCEPT ![t.owner] =
          [i \in DOMAIN @ |-> [@[i] EXCEPT !.connected = FALSE]]]
    /\ timers' = timers \ {t}
    /\ stopsInRow' = 0
    /\ NoCuePlayed
    /\ UNCHANGED uiVars
    /\ UNCHANGED <<cueNodes, diagVars>>
    /\ UNCHANGED <<supported, audioContextRef, backgroundMusicNodesRef,
                   breathingBellTimeoutRef, pc, musicType, cancelled, outcome,
                   breathPhase, strikes, fadeLeft, stopped, strikesAtStop,
                   cleaned, overlapped, sessVars>>

\* ------------------------------------------------------------------ time
Down(n) == IF n > 0 THEN n - 1 ELSE n
\* The same second, for a stop time kept in milliseconds.
DownMs(n) == IF n > 1000 THEN n - 1000 ELSE IF n > 0 THEN 0 ELSE n

\* One second passes on the audio clock and on the timer clock. A timer
\* that is due runs before the clock moves on.
Tick ==
    /\ \A t \in timers : t.left > 0
    /\ sessPhase # "effect"
    /\ \/ timers # {}
       \/ \E s \in Calls : fadeLeft[s] > 0
       \/ \E s \in Calls : \E i \in DOMAIN allNodes[s] : allNodes[s][i].stopIn > 0
       \/ \E i \in DOMAIN cueNodes : cueNodes[i].stopIn > 0
    /\ timers' = {[t EXCEPT !.left = @ - 1] : t \in timers}
    /\ fadeLeft' = [s \in Calls |-> Down(fadeLeft[s])]
    /\ allNodes' = [s \in Calls |->
          [i \in DOMAIN allNodes[s] |->
              [allNodes[s][i] EXCEPT !.stopIn = Down(@)]]]
    /\ cueNodes' = [i \in DOMAIN cueNodes |->
          [cueNodes[i] EXCEPT !.stopIn = DownMs(@)]]
    /\ stopsInRow' = 0
    /\ NoCuePlayed
    /\ UNCHANGED uiVars
    /\ UNCHANGED diagVars
    /\ UNCHANGED <<supported, audioContextRef, backgroundMusicNodesRef,
                   breathingBellTimeoutRef, pc, musicType, cancelled, outcome,
                   breathPhase, strikes, stopped, strikesAtStop, cleaned,
                   overlapped, sessVars>>

\* ------------------------------------------- the session screen's effect
\* The effect's cleanup: isCancelled = true; stopBackgroundMusic().
SessCleanup ==
    /\ cancelled' = IF sessCall = 0 THEN cancelled
                    ELSE [cancelled EXCEPT ![sessCall] = TRUE]
    /\ StopBody
    /\ cleaned' = cleaned \cup CleanedBy(cancelled')

\* The session screen mounts with a backgroundMusicType.
SessMount(kind) ==
    /\ sessPhase = "idle"
    /\ sessPhase' = "effect"
    /\ sessType' = kind
    /\ UNCHANGED <<supported, audioContextRef, backgroundMusicNodesRef,
                   breathingBellTimeoutRef, pc, musicType, cancelled, outcome,
                   allNodes, breathPhase, strikes, timers, fadeLeft, stopped,
                   strikesAtStop, cleaned, overlapped, stopsInRow, sessCall,
                   mounts, cueNodes, diagVars>>
    /\ NoCuePlayed
    /\ UNCHANGED uiVars

\* The effect body: a fresh flag, and startBackgroundMusic unless Off.
SessRunEffect ==
    /\ sessPhase = "effect"
    /\ sessPhase' = "running"
    /\ UNCHANGED <<sessType, mounts>>
    /\ IF sessType = Off
       THEN /\ sessCall' = 0
            /\ NoCuePlayed
            /\ UNCHANGED uiVars
            /\ UNCHANGED <<cueNodes, diagVars>>
            /\ UNCHANGED <<supported, audioContextRef, backgroundMusicNodesRef,
                           breathingBellTimeoutRef, pc, musicType, cancelled,
                           outcome, allNodes, breathPhase, strikes, timers,
                           fadeLeft, stopped, strikesAtStop, cleaned,
                           overlapped, stopsInRow>>
       ELSE \E s \in Calls :
            /\ StartBody(s, sessType)
            /\ sessCall' = s

\* The backgroundMusicType prop changes: cleanup, then the effect again.
SessChangeType(kind) ==
    /\ sessPhase = "running"
    /\ kind # sessType
    /\ kind # Off => \E s \in Calls : pc[s] = "new"
    /\ SessCleanup
    /\ sessPhase' = "effect"
    /\ sessType' = kind
    /\ UNCHANGED <<sessCall, mounts>>

\* The session screen unmounts: cleanup.
SessUnmount ==
    /\ sessPhase = "running"
    /\ SessCleanup
    /\ sessPhase' = "unmounted"
    /\ UNCHANGED <<sessType, sessCall, mounts>>

\* A session screen mounts after the last one unmounted: its useAudio()
\* call makes the refs of a new engine.
SessRemount ==
    /\ sessPhase = "unmounted"
    /\ mounts < MaxMounts
    /\ mounts' = mounts + 1
    /\ sessPhase' = "idle"
    /\ sessCall' = 0
    /\ audioContextRef' = "null"
    /\ backgroundMusicNodesRef' = Null
    /\ breathingBellTimeoutRef' = NoTimeout
    /\ NoCuePlayed
    /\ UNCHANGED uiVars
    /\ stopsInRow' = 0
    /\ UNCHANGED <<supported, pc, musicType, cancelled, outcome, allNodes,
                   breathPhase, strikes, timers, fadeLeft, stopped,
                   strikesAtStop, cleaned, overlapped, sessType, cueNodes,
                   diagVars>>

\* ------------------------------------------------------- spoken guidance
\* Mutant: any enumeration makes the engine ready.
AnyEnumeration(n) == TRUE

\* availableVoices.length > 0
VoicesFound(n) == n > 0

\* loadVoices(): the voices are kept and the flag is set once getVoices()
\* returns at least one voice; the handler is then removed.
loadVoices(n) ==
    IF VoicesFound(n)
    THEN /\ voices' = n
         /\ isSpeechReady' = TRUE
         /\ onvoiceschanged' = FALSE
    ELSE UNCHANGED <<voices, isSpeechReady>>

\* The hook's speech effect, once after the first render.
SpeechEffect ==
    /\ speechPhase = "rendered"
    /\ speechPhase' = "mounted"
    /\ IF speechSupported
       THEN /\ loadVoices(platformVoices)
            /\ ~VoicesFound(platformVoices) => onvoiceschanged' = TRUE
       ELSE UNCHANGED <<voices, isSpeechReady, onvoiceschanged>>
    /\ UNCHANGED <<speechSupported, platformVoices, speakReady, utterances,
                   speechWarnings, audioVars, roundVars, storeVars>>

\* The platform's list of voices changes; the voiceschanged event runs the
\* handler if one is set.
VoicesChanged(n) ==
    /\ speechSupported
    /\ n # platformVoices
    /\ platformVoices' = n
    /\ IF onvoiceschanged
       THEN /\ loadVoices(n)
            /\ ~VoicesFound(n) => UNCHANGED onvoiceschanged
       ELSE UNCHANGED <<voices, isSpeechReady, onvoiceschanged>>
    /\ UNCHANGED <<speechSupported, speakReady, utterances, speechWarnings,
                   speechPhase, audioVars, roundVars, storeVars>>

\* The component renders again after a state change: speak is made anew
\* with the isSpeechReady of this render.
SpeechRender ==
    /\ speechPhase = "mounted"
    /\ speakReady # isSpeechReady
    /\ speakReady' = isSpeechReady
    /\ UNCHANGED <<speechSupported, platformVoices, onvoiceschanged, voices,
                   isSpeechReady, utterances, speechWarnings, speechPhase,
                   audioVars, roundVars, storeVars>>

\* The guard of speak(): the call returns without an utterance.
SpeakSkips(ready) == ~speechSupported \/ ~ready

\* speak(text), called through the closure of the last render.
speak ==
    /\ speechPhase # "unmounted"
    /\ utterances < MaxUtterances
    /\ speechWarnings < MaxWarnings
    /\ utterances' = IF SpeakSkips(speakReady) THEN utterances
                     ELSE utterances + 1
    /\ speechWarnings' = IF ~speakReady THEN speechWarnings + 1
                         ELSE speechWarnings
    /\ UNCHANGED <<speechSupported, platformVoices, onvoiceschanged, voices,
                   isSpeechReady, speakReady, speechPhase, audioVars, roundVars, storeVars>>

\* The cleanup of the speech effect.
SpeechUnmount ==
    /\ speechPhase = "mounted"
    /\ speechPhase' = "unmounted"
    /\ onvoiceschanged' = FALSE
    /\ UNCHANGED <<speechSupported, platformVoices, voices, isSpeechReady,
                   speakReady, utterances, speechWarnings, audioVars, roundVars, storeVars>>

\* ------------------------------------------------- the session's rounds
NoInterval == [kind |-> "none", ms |-> 0]
\* setTimeout / setInterval of the phase effect, with its delay.
Interval(kind, ms) == [kind |-> kind, ms |-> ms]
NoFinish == [pending |-> FALSE, times |-> <<>>, history |-> <<>>]

breathDuration == IF fastPacedBreathing THEN 1600 ELSE 2000

\* speakIfEnabled(text): the prompt speak() is called with, if any.
speakIfEnabled(text) == IF enableSpokenGuidance THEN text ELSE lastPrompt

\* breathCount % 2 === 0 ? "inhale" : "exhale"
BreathCue(c) == IF c % 2 = 0 THEN "inhale" ELSE "exhale"

\* The record App makes of a session (its id, date and duration left out).
SessionRecordOf(times) == [rounds |-> Len(times), retentionTimes |-> times]

\* Mutant: a record is made of every session.
AlwaysRecorded(times) == TRUE

\* retentionTimes.length > 0
HasRetention(times) == Len(times) > 0

\* App's handleFinishSession, as the closure that saw the history hist.
AppFinish(times, hist) ==
    /\ screen' = "PostSession"
    /\ finishes' = finishes + 1
    /\ interval' = NoInterval
    /\ IF HasRetention(times)
       THEN /\ sessionHistory' = <<SessionRecordOf(times)>> \o hist
            /\ \E saved \in BOOLEAN :
                 storedHistory' = IF saved THEN sessionHistory'
                                  ELSE storedHistory
       ELSE UNCHANGED <<sessionHistory, storedHistory>>

\* The phase effect in Breathing, breathCount being c.
BreathingEffect(c, cues) ==
    /\ roundCues' = IF c >= breathsPerRound * 2 /\ timer = 0
                    THEN cues \o <<BreathCue(c), "hold">>
                    ELSE Append(cues, BreathCue(c))
    /\ lastPrompt' =
          IF c >= breathsPerRound * 2 /\ timer = 0
          THEN speakIfEnabled("Final exhalation... and hold.")
          ELSE IF c = 0 THEN speakIfEnabled("Begin breathing.")
          ELSE lastPrompt
    /\ IF c >= breathsPerRound * 2
       THEN /\ phase' = "Retention"
            /\ interval' = Interval("retention", 1000)
       ELSE /\ phase' = "Breathing"
            /\ interval' = Interval("breath", breathDuration)

\* Frame of a step of the mounted session screen.
SessionStep ==
    /\ screen = "Session"
    /\ UNCHANGED <<breathsPerRound, totalRounds, fastPacedBreathing,
                   enableSpokenGuidance, screen, sessionHistory, storedHistory,
                   history0, finishes, audioVars, speechVars,
                   storeVars>>

\* InitialPreparation ends after 8 s.
ToPreparing ==
    /\ SessionStep
    /\ interval.kind = "toPreparing"
    /\ phase' = "Preparing"
    /\ lastPrompt' = speakIfEnabled("Get ready for Round")
    /\ interval' = Interval("toBreathing", 3000)
    /\ UNCHANGED <<currentRound, breathCount, timer, retentionTimes,
                   finishTimeout, roundCues>>

\* Preparing ends after 3 s.
ToBreathing ==
    /\ SessionStep
    /\ interval.kind = "toBreathing"
    /\ BreathingEffect(breathCount, <<>>)
    /\ UNCHANGED <<currentRound, breathCount, timer, retentionTimes,
                   finishTimeout>>

\* The breath timeout: setBreathCount(c => c + 1).
BreathTimeout ==
    /\ SessionStep
    /\ interval.kind = "breath"
    /\ breathCount' = breathCount + 1
    /\ BreathingEffect(breathCount + 1, roundCues)
    /\ UNCHANGED <<currentRound, timer, retentionTimes, finishTimeout>>

\* Mutant: the retention interval ends the hold when its time is up.
RetentionTickExpires ==
    /\ SessionStep
    /\ interval.kind = "retention"
    /\ timer' = IF timer < MaxRetention THEN timer + 1 ELSE 15
    /\ phase' = IF timer < MaxRetention THEN phase ELSE "Recovery"
    /\ interval' = IF timer < MaxRetention THEN interval
                   ELSE Interval("recovery", 1000)
    /\ UNCHANGED <<currentRound, breathCount, retentionTimes,
                   finishTimeout, roundCues, lastPrompt>>

\* The retention interval: setTimer(t => t + 1).
RetentionTick ==
    /\ SessionStep
    /\ interval.kind = "retention"
    /\ timer < MaxRetention
    /\ timer' = timer + 1
    /\ UNCHANGED <<phase, currentRound, breathCount, retentionTimes, interval,
                   finishTimeout, roundCues, lastPrompt>>

\* Mutant: the new time is put in front.
RecordedFirst(times, t) == <<t>> \o times

\* [...times, timer]
Recorded(times, t) == Append(times, t)

\* The user taps at the end of the retention.
handleRetentionEnd ==
    /\ SessionStep
    /\ phase = "Retention"
    /\ retentionTimes' = Recorded(retentionTimes, timer)
    /\ phase' = "Recovery"
    /\ roundCues' = Append(roundCues, "chime")
    /\ timer' = 15
    /\ lastPrompt' = speakIfEnabled("Inhale, and hold for 15 seconds.")
    /\ interval' = Interval("recovery", 1000)
    /\ UNCHANGED <<currentRound, breathCount, finishTimeout>>

\* Mutant: the last round has a next one.
RoundsToGo == currentRound <= totalRounds

\* currentRound < totalRounds
MoreRounds == currentRound < totalRounds

\* The recovery interval: the countdown, and at its end the next round or
\* handleFinishSession.
RecoveryTick ==
    /\ SessionStep
    /\ interval.kind = "recovery"
    /\ UNCHANGED <<currentRound, breathCount, retentionTimes>>
    /\ IF timer <= 1
       THEN /\ timer' = 0
            /\ roundCues' = Append(roundCues, "chime")
            /\ IF MoreRounds
               THEN /\ phase' = "Transition"
                    /\ lastPrompt' = speakIfEnabled("Release breath hold... let it go.")
                    /\ interval' = Interval("transition", 5000)
                    /\ UNCHANGED finishTimeout
               ELSE /\ phase' = "Finished"
                    /\ lastPrompt' = speakIfEnabled("Session complete. Well done.")
                    /\ interval' = NoInterval
                    /\ finishTimeout' =
                          [pending |-> TRUE, times |-> retentionTimes,
                           history |-> sessionHistory]
       ELSE /\ timer' = timer - 1
            /\ UNCHANGED <<phase, interval, finishTimeout, roundCues,
                           lastPrompt>>

\* Transition ends after 5 s: resetForNextRound.
resetForNextRound ==
    /\ SessionStep
    /\ interval.kind = "transition"
    /\ breathCount' = 0
    /\ timer' = 0
    /\ currentRound' = currentRound + 1
    /\ phase' = "Preparing"
    /\ lastPrompt' = speakIfEnabled("Get ready for Round")
    /\ interval' = Interval("toBreathing", 3000)
    /\ UNCHANGED <<retentionTimes, finishTimeout, roundCues>>

\* The End button: onFinish with the retention times so far.
handleEndEarly ==
    /\ screen = "Session"
    /\ AppFinish(retentionTimes, sessionHistory)
    /\ UNCHANGED <<breathsPerRound, totalRounds, fastPacedBreathing,
                   enableSpokenGuidance, phase, currentRound, breathCount,
                   timer, retentionTimes, finishTimeout, history0, roundCues,
                   lastPrompt, audioVars, speechVars,
                   storeVars>>

\* The timeout of handleFinishSession fires, 2 s after the last recovery:
\* onFinish as the render that set it had it.
FinishTimeout ==
    /\ finishTimeout.pending
    /\ AppFinish(finishTimeout.times, finishTimeout.history)
    /\ finishTimeout' = NoFinish
    /\ UNCHANGED <<breathsPerRound, totalRounds, fastPacedBreathing,
                   enableSpokenGuidance, phase, currentRound, breathCount,
                   timer, retentionTimes, history0, roundCues, lastPrompt,
                   audioVars, speechVars,
                   storeVars>>

\* ------------------------------------------------------ settings storage
\* The fields of AppSettings, in the order of defaultSettings.
SettingsKeys == <<"breathsPerRound", "totalRounds", "enableSpokenGuidance",
                  "backgroundMusicType", "fastPacedBreathing">>

defaultSettings ==
    [breathsPerRound |-> 30, totalRounds |-> 3, enableSpokenGuidance |-> TRUE,
     backgroundMusicType |-> Off, fastPacedBreathing |-> FALSE]

\* A stored item: absent (getItem returns null), the empty string, text that
\* is no JSON, the JSON text null, or the JSON text of an object, which is the
\* sequence of its "key": value members.
Absent == [form |-> "absent", pairs |-> <<>>]
EmptyText == [form |-> "empty", pairs |-> <<>>]
Garbage == [form |-> "garbage", pairs |-> <<>>]
NullText == [form |-> "null", pairs |-> <<>>]
ObjectText(pairs) == [form |-> "object", pairs |-> pairs]

\* JSON.stringify of a settings object: its members in field order.
JSONstringify(s) ==
    ObjectText([i \in DOMAIN SettingsKeys |->
                   <<SettingsKeys[i], s[SettingsKeys[i]]>>])

\* JSON.parse of the text of an object: a repeated key keeps its last value.
JSONparse(text) ==
    LET ps == text.pairs
        last(k) == CHOOSE i \in DOMAIN ps :
                      /\ ps[i][1] = k
                      /\ \A j \in DOMAIN ps : ps[j][1] = k => j <= i
    IN [k \in {ps[i][1] : i \in DOMAIN ps} |-> ps[last(k)][2]]

\* if (storedSettings): null and "" are falsy.
Truthy(text) == text.form \notin {"absent", "empty"}

\* JSON.parse throws a SyntaxError; hasOwnProperty of null a TypeError.
GetRaises(text) == Truthy(text) /\ text.form \in {"garbage", "null"}

\* The migration of the old enableBackgroundMusic setting.
Migrated(parsed) ==
    IF "enableBackgroundMusic" \in DOMAIN parsed
    THEN [k \in (DOMAIN parsed \ {"enableBackgroundMusic"})
                    \cup {"backgroundMusicType"} |->
             IF k = "backgroundMusicType"
             THEN IF parsed["enableBackgroundMusic"] THEN AmbientHum ELSE Off
             ELSE parsed[k]]
    ELSE parsed

\* Mutant: the defaults are spread last.
SpreadDefaultsLast(defaults, parsed) ==
    [k \in DOMAIN defaults \cup DOMAIN parsed |->
        IF k \in DOMAIN defaults THEN defaults[k] ELSE parsed[k]]

\* { ...defaults, ...parsed }
Spread(defaults, parsed) ==
    [k \in DOMAIN defaults \cup DOMAIN parsed |->
        IF k \in DOMAIN parsed THEN parsed[k] ELSE defaults[k]]

\* The body of getSettings and of saveSettings is inside their try.
ParseInTry == TRUE
SetItemInTry == TRUE

\* The value getSettings returns for a stored item.
Returned(text) ==
    IF Truthy(text) /\ ~GetRaises(text)
    THEN Spread(defaultSettings, Migrated(JSONparse(text)))
    ELSE defaultSettings

\* What the session, the speech hook and the audio engine are to the storage.
StoreFrame == UNCHANGED <<audioVars, speechVars, roundVars>>

getSettings ==
    /\ loadedSettings' = Returned(storedSettings)
    /\ storeOp' = "get"
    /\ storeThrown' = Escaped("getSettings", GetRaises(storedSettings),
                              ParseInTry)
    /\ storeLogged' = (storeLogged \/ GetRaises(storedSettings))
    /\ UNCHANGED <<storedSettings, settingsArg, savedFresh, setItemThrew>>
    /\ StoreFrame

\* saveSettings(settings); setItem may throw (quota, storage disabled).
saveSettings(settings) ==
    \E threw \in BOOLEAN :
        /\ storedSettings' = IF threw THEN storedSettings
                             ELSE JSONstringify(settings)
        /\ settingsArg' = settings
        /\ savedFresh' = TRUE
        /\ setItemThrew' = threw
        /\ storeOp' = "save"
        /\ storeThrown' = Escaped("saveSettings", threw, SetItemInTry)
        /\ storeLogged' = (storeLogged \/ threw)
        /\ UNCHANGED loadedSettings
        /\ StoreFrame

\* Another writer of the item: an earlier version of the app, another tab, the
\* user clearing the site's data.
OtherWrite(text) ==
    /\ storedSettings' = text
    /\ savedFresh' = FALSE
    /\ storeOp' = "write"
    /\ UNCHANGED <<settingsArg, setItemThrew, loadedSettings, storeThrown,
                   storeLogged>>
    /\ StoreFrame

\* The storage of a first visit.
StoreIdle ==
    /\ storedSettings = Absent
    /\ settingsArg = defaultSettings
    /\ savedFresh = FALSE
    /\ setItemThrew = FALSE
    /\ loadedSettings = defaultSettings
    /\ storeOp = "none"
    /\ storeThrown = {}
    /\ storeLogged = FALSE

\* ------------------------------------- the engine of src/hooks/useAudio.ts
\* backgroundMusicNodesRef.current: null, or the record of a soundscape with
\* the id of its timer (Never if it has none).
NoMusic == [type |-> "none", intervalId |-> Never]
MusicNodes(type, intervalId) == [type |-> type, intervalId |-> intervalId]

\* A timer of setInterval (period > 0) or setTimeout (period = 0); phase is
\* the breathPhase of the closure of a bell timeout.
HookTimer(id, kind, left, period, ph) ==
    [id |-> id, kind |-> kind, left |-> left, period |-> period, phase |-> ph]

\* scheduleNextBell: breathPhase = (breathPhase + 1) % 3, and the timeout
\* of breathPattern[breathPhase].
NextBell(id, ph) ==
    HookTimer(id, "bell", breathPattern[((ph + 1) % 3) + 1], 0, (ph + 1) % 3)

\* clearInterval(id): the timer of that id, interval or timeout, is no more.
clearInterval(id) == {t \in hookTimers : t.id # id}

HookFrame == UNCHANGED <<engineVars, speechVars, roundVars, storeVars>>

\* startBackgroundMusic(musicType) of a synthesized soundscape, with no
\* getIsCancelled: runs to the record without an await.
HookStart(type) ==
    /\ hookMusic = NoMusic
    /\ hookSilenced' = FALSE
    /\ UNCHANGED hookLate
    /\ HookFrame
    /\ CASE type = AmbientHum ->
              /\ hookMusic' = MusicNodes(type, Never)
              /\ UNCHANGED <<hookTimers, hookNextId, hookStrikes>>
         [] type = TibetanSingingBowl ->
              /\ hookStrikes < MaxHookStrikes
              /\ hookStrikes' = hookStrikes + 1
              /\ \E period \in IntervalChoices :
                   hookTimers' = hookTimers \cup
                      {HookTimer(hookNextId, "interval", period, period, 0)}
              /\ hookNextId' = hookNextId + 1
              /\ hookMusic' = MusicNodes(type, hookNextId)
         [] type = BreathingBell ->
              /\ hookStrikes < MaxHookStrikes
              /\ hookStrikes' = hookStrikes + 1
              /\ hookTimers' = hookTimers \cup {NextBell(hookNextId, 0)}
              /\ hookNextId' = hookNextId + 1
              /\ hookMusic' = MusicNodes(type, hookNextId)

\* The bowl's interval fires: playBowl.
HookFireInterval(t) ==
    /\ t \in hookTimers /\ t.kind = "interval" /\ t.left = 0
    /\ hookStrikes < MaxHookStrikes
    /\ hookStrikes' = hookStrikes + 1
    /\ hookLate' = IF hookSilenced THEN hookLate + 1 ELSE hookLate
    /\ hookTimers' = (hookTimers \ {t}) \cup {[t EXCEPT !.left = t.period]}
    /\ UNCHANGED <<hookMusic, hookNextId, hookSilenced>>
    /\ HookFrame

\* A bell timeout fires: scheduleNextBell plays the bell and sets the next
\* timeout; the record keeps the id it was made with.
HookFireBell(t) ==
    /\ t \in hookTimers /\ t.kind = "bell" /\ t.left = 0
    /\ hookStrikes < MaxHookStrikes
    /\ hookStrikes' = hookStrikes + 1
    /\ hookLate' = IF hookSilenced THEN hookLate + 1 ELSE hookLate
    /\ hookTimers' = (hookTimers \ {t}) \cup {NextBell(hookNextId, t.phase)}
    /\ hookNextId' = hookNextId + 1
    /\ UNCHANGED <<hookMusic, hookSilenced>>
    /\ HookFrame

\* stopBackgroundMusic() on a recorded soundscape.
HookStop ==
    /\ hookMusic # NoMusic
    /\ hookTimers' = IF hookMusic.intervalId # Never
                     THEN clearInterval(hookMusic.intervalId)
                     ELSE hookTimers
    /\ hookMusic' = NoMusic
    /\ hookSilenced' = TRUE
    /\ UNCHANGED <<hookNextId, hookStrikes, hookLate>>
    /\ HookFrame

\* A second passes.
HookTick ==
    /\ hookTimers # {}
    /\ \A t \in hookTimers : t.left > 0
    /\ hookTimers' = {[t EXCEPT !.left = @ - 1] : t \in hookTimers}
    /\ UNCHANGED <<hookMusic, hookNextId, hookStrikes, hookSilenced, hookLate>>
    /\ HookFrame

\* The engine before its first start.
HookIdle ==
    /\ hookMusic = NoMusic
    /\ hookTimers = {}
    /\ hookNextId = 1
    /\ hookStrikes = 0
    /\ hookSilenced = FALSE
    /\ hookLate = 0

\* --------------------------------------------------------- specification
\* Sliders of the settings screen: the draws the model makes.
BreathChoices == {20, 25}
RoundChoices == {1, 2}
\* The histories a session begins with.
HistoryChoices == {<<>>, <<SessionRecordOf(<<1, 2>>)>>}

\* A session screen that has just mounted, with the given props and history.
RoundBegins(b, r, f, g, h) ==
    /\ breathsPerRound = b
    /\ totalRounds = r
    /\ fastPacedBreathing = f
    /\ enableSpokenGuidance = g
    /\ screen = "Session"
    /\ phase = "InitialPreparation"
    /\ currentRound = 1
    /\ breathCount = 0
    /\ timer = 0
    /\ retentionTimes = <<>>
    /\ interval = Interval("toPreparing", 8000)
    /\ finishTimeout = NoFinish
    /\ sessionHistory = h
    /\ storedHistory = h
    /\ history0 = h
    /\ roundCues = <<>>
    /\ lastPrompt = "none"
    /\ finishes = 0

\* The session of the default settings, first visit.
RoundIdle == RoundBegins(30, 3, FALSE, TRUE, <<>>)

\* The speech state of a hook that has rendered once, on a platform that
\* knows no voice yet.
SpeechIdle ==
    /\ speechSupported = TRUE
    /\ platformVoices = 0
    /\ onvoiceschanged = FALSE
    /\ voices = 0
    /\ isSpeechReady = FALSE
    /\ speakReady = FALSE
    /\ utterances = 0
    /\ speechWarnings = 0
    /\ speechPhase = "rendered"

Init ==
    /\ supported \in BOOLEAN
    /\ audioContextRef = "null"
    /\ backgroundMusicNodesRef = Null
    /\ breathingBellTimeoutRef = NoTimeout
    /\ pc = [s \in Calls |-> "new"]
    /\ musicType = [s \in Calls |-> Off]
    /\ cancelled = [s \in Calls |-> FALSE]
    /\ outcome = [s \in Calls |-> "none"]
    /\ allNodes = [s \in Calls |-> <<>>]
    /\ breathPhase = [s \in Calls |-> 0]
    /\ strikes = [s \in Calls |-> 0]
    /\ timers = {}
    /\ fadeLeft = [s \in Calls |-> 0]
    /\ stopped = {}
    /\ strikesAtStop = [s \in Calls |-> 0]
    /\ cleaned = {}
    /\ overlapped = {}
    /\ stopsInRow = 0
    /\ sessPhase = "free"
    /\ sessType = Off
    /\ sessCall = 0
    /\ mounts = 1
    /\ cueNodes = <<>>
    /\ lastCue = "none"
    /\ ctxConstructed = 0
    /\ unsupportedLogs = 0
    /\ loadErrorLogged = {}
    /\ surfaced = {}
    /\ gainEvents = <<>>
    /\ SpeechIdle
    /\ RoundIdle
    /\ StoreIdle
    /\ HookIdle

Next ==
    \/ \E s \in Calls, kind \in BackgroundMusicType : startBackgroundMusic(s, kind)
    \/ \E s \in Calls, ok \in BOOLEAN : LoadStep(s, ok)
    \/ stopBackgroundMusic
    \/ \E s \in Calls : SetCancelled(s)
    \/ \E t \in timers : FireInterval(t)
    \/ \E t \in timers : FireBell(t)
    \/ \E t \in timers : FireDisconnect(t)
    \/ Tick

Spec == Init /\ [][Next]_vars

\* One session screen drives the engine through its music effect.
SessInit ==
    /\ supported \in BOOLEAN
    /\ audioContextRef = "null"
    /\ backgroundMusicNodesRef = Null
    /\ breathingBellTimeoutRef = NoTimeout
    /\ pc = [s \in Calls |-> "new"]
    /\ musicType = [s \in Calls |-> Off]
    /\ cancelled = [s \in Calls |-> FALSE]
    /\ outcome = [s \in Calls |-> "none"]
    /\ allNodes = [s \in Calls |-> <<>>]
    /\ breathPhase = [s \in Calls |-> 0]
    /\ strikes = [s \in Calls |-> 0]
    /\ timers = {}
    /\ fadeLeft = [s \in Calls |-> 0]
    /\ stopped = {}
    /\ strikesAtStop = [s \in Calls |-> 0]
    /\ cleaned = {}
    /\ overlapped = {}
    /\ stopsInRow = 0
    /\ sessPhase = "idle"
    /\ sessType = Off
    /\ sessCall = 0
    /\ mounts = 1
    /\ cueNodes = <<>>
    /\ lastCue = "none"
    /\ ctxConstructed = 0
    /\ unsupportedLogs = 0
    /\ loadErrorLogged = {}
    /\ surfaced = {}
    /\ gainEvents = <<>>
    /\ SpeechIdle
    /\ RoundIdle
    /\ StoreIdle
    /\ HookIdle

FireTimer ==
    \/ \E t \in timers : FireInterval(t)
    \/ \E t \in timers : FireBell(t)
    \/ \E t \in timers : FireDisconnect(t)

SessNext ==
    \/ \E kind \in BackgroundMusicType : SessMount(kind)
    \/ SessRunEffect
    \/ \E kind \in BackgroundMusicType : SessChangeType(kind)
    \/ SessUnmount
    \/ \E s \in Calls, ok \in BOOLEAN : LoadStep(s, ok)
    \/ FireTimer
    \/ Tick

SessSpec == SessInit /\ [][SessNext]_vars

\* Session screens mount one after the other, each with its own engine,
\* and play cues while they are mounted.
AppNext ==
    \/ SessNext
    \/ \E name \in CueNames : playSound(name)
    \/ SessRemount

AppSpec == SessInit /\ [][AppNext]_vars

\* The audio engine before its first use.
AudioIdle ==
    /\ supported = TRUE
    /\ audioContextRef = "null"
    /\ backgroundMusicNodesRef = Null
    /\ breathingBellTimeoutRef = NoTimeout
    /\ pc = [s \in Calls |-> "new"]
    /\ musicType = [s \in Calls |-> Off]
    /\ cancelled = [s \in Calls |-> FALSE]
    /\ outcome = [s \in Calls |-> "none"]
    /\ allNodes = [s \in Calls |-> <<>>]
    /\ breathPhase = [s \in Calls |-> 0]
    /\ strikes = [s \in Calls |-> 0]
    /\ timers = {}
    /\ fadeLeft = [s \in Calls |-> 0]
    /\ stopped = {}
    /\ strikesAtStop = [s \in Calls |-> 0]
    /\ cleaned = {}
    /\ overlapped = {}
    /\ stopsInRow = 0
    /\ sessPhase = "idle"
    /\ sessType = Off
    /\ sessCall = 0
    /\ mounts = 1
    /\ cueNodes = <<>>
    /\ lastCue = "none"
    /\ ctxConstructed = 0
    /\ unsupportedLogs = 0
    /\ loadErrorLogged = {}
    /\ surfaced = {}
    /\ gainEvents = <<>>

\* The hook's spoken guidance, on every platform and every list of voices.
SpeechInit ==
    /\ AudioIdle
    /\ speechSupported \in BOOLEAN
    /\ platformVoices \in 0..MaxVoices
    /\ onvoiceschanged = FALSE
    /\ voices = 0
    /\ isSpeechReady = FALSE
    /\ speakReady = FALSE
    /\ utterances = 0
    /\ speechWarnings = 0
    /\ speechPhase = "rendered"
    /\ RoundIdle
    /\ StoreIdle
    /\ HookIdle

SpeechNext ==
    \/ SpeechEffect
    \/ \E n \in 0..MaxVoices : VoicesChanged(n)
    \/ SpeechRender
    \/ speak
    \/ SpeechUnmount

SpeechSpec == SpeechInit /\ [][SpeechNext]_vars

\* One session, for the draws of the settings and of the history.
RoundInit ==
    /\ AudioIdle
    /\ SpeechIdle
    /\ StoreIdle
    /\ HookIdle
    /\ \E b \in BreathChoices, r \in RoundChoices, f, g \in BOOLEAN,
          h \in HistoryChoices : RoundBegins(b, r, f, g, h)

RoundNext ==
    \/ ToPreparing
    \/ ToBreathing
    \/ BreathTimeout
    \/ RetentionTick
    \/ handleRetentionEnd
    \/ RecoveryTick
    \/ resetForNextRound
    \/ handleEndEarly
    \/ FinishTimeout

RoundSpec == RoundInit /\ [][RoundNext]_vars

\* The settings the settings screen can make, and the items other writers
\* leave.
SettingsChoices ==
    [breathsPerRound : {20, 30}, totalRounds : {1, 3},
     enableSpokenGuidance : BOOLEAN, backgroundMusicType : {Off, BreathingBell},
     fastPacedBreathing : BOOLEAN]
StoredChoices ==
    {Absent, EmptyText, Garbage, NullText,
     ObjectText(<<>>),
     ObjectText(<<<<"breathsPerRound", 40>>>>),
     ObjectText(<<<<"enableBackgroundMusic", TRUE>>>>),
     ObjectText(<<<<"totalRounds", 2>>, <<"enableBackgroundMusic", FALSE>>,
                  <<"totalRounds", 5>>>>)}

StoreInit ==
    /\ AudioIdle
    /\ SpeechIdle
    /\ RoundIdle
    /\ StoreIdle
    /\ HookIdle

StoreNext ==
    \/ getSettings
    \/ \E s \in SettingsChoices : saveSettings(s)
    \/ \E text \in StoredChoices : OtherWrite(text)

StoreSpec == StoreInit /\ [][StoreNext]_vars

\* The soundscapes made of oscillators.
HookTypes == {AmbientHum, TibetanSingingBowl, BreathingBell}

HookInit ==
    /\ AudioIdle
    /\ SpeechIdle
    /\ RoundIdle
    /\ StoreIdle
    /\ HookIdle

HookNext ==
    \/ \E type \in HookTypes : HookStart(type)
    \/ \E t \in hookTimers : HookFireInterval(t)
    \/ \E t \in hookTimers : HookFireBell(t)
    \/ HookStop
    \/ HookTick

HookSpec == HookInit /\ [][HookNext]_vars

\* The event loop runs a pending effect and a due timer, and time passes.
SessFair ==
    /\ SessSpec
    /\ WF_vars(SessRunEffect)
    /\ WF_vars(FireTimer)
    /\ WF_vars(Tick)


\* ------------------------------------------------------------ the claims
Master(s) == allNodes[s][1]
\* Node i of call s reaches the context's destination.
ConnectedToOutput(s, i) == allNodes[s][i].connected /\ Master(s).connected
\* The graph of call s is alive: its master gain is connected to the output
\* and one of its sources has not stopped.
LiveGraph(s) ==
    /\ allNodes[s] # <<>>
    /\ Master(s).connected
    /\ \E i \in DOMAIN allNodes[s] : Playing(allNodes[s][i])

\* C1: at no point do the node graphs of two soundscapes coexist (two master
\* gains connected to the output, each with a source that has not stopped).
C1_AtMostOneGraph == Cardinality({s \in Calls : LiveGraph(s)}) <= 1

\* Call s returns in this step because isCancelled() was true at a checkpoint.
ReturnsCancelled(s) ==
    /\ pc[s] # "done"
    /\ pc'[s] = "done"
    /\ \/ outcome'[s] = "cancelled"
       \/ outcome'[s] = "noop" /\ cancelled[s]

\* C2: when a start that saw isCancelled() true at a checkpoint returns, the
\* soundscape record is not its own (and is null if it was null), none of its
\* nodes is still connected and none of its timers is pending.
C2_CancelBeforePromote ==
    [][\A s \in Calls : ReturnsCancelled(s) =>
          /\ backgroundMusicNodesRef'.owner # s
          /\ backgroundMusicNodesRef = Null => backgroundMusicNodesRef' = Null
          /\ \A i \in DOMAIN allNodes'[s] : ~allNodes'[s][i].connected
          /\ {t \in timers' : t.owner = s /\ t.kind # "disconnect"} = {}]_vars

C4_CancelledStartDisconnected ==
    \A s \in Calls : outcome[s] = "cancelled" =>
        \A i \in DOMAIN allNodes[s] : ~ConnectedToOutput(s, i)

\* C5: a start made while an earlier, uncancelled start is still in flight
\* creates no node and is never promoted.
C5_ConcurrentStartRejected ==
    \A s \in overlapped : allNodes[s] = <<>> /\ outcome[s] # "promoted"

\* C6: after stopBackgroundMusic() on an Active soundscape, no interval or
\* bell timeout of that soundscape is pending and it plays no further strike.
C6_NoTimerAfterStop ==
    \A s \in stopped : TimersOf(s) = {} /\ strikes[s] = strikesAtStop[s]

C6_Witness ==
    \E s \in stopped :
        /\ musicType[s] \in {TibetanSingingBowl, BreathingBell}
        /\ strikes[s] = MaxStrikes
        /\ fadeLeft[s] = 0
        /\ \A i \in DOMAIN allNodes[s] : ~allNodes[s][i].connected

\* C7 as claimed: every stoppable node of a stopped soundscape stops no
\* earlier than the moment the fade-out ramp reaches 0.
C7_EveryNodeOutlivesFade ==
    \A s \in stopped : \A i \in DOMAIN allNodes[s] :
        Stoppable(allNodes[s][i]) => allNodes[s][i].stopIn >= fadeLeft[s]

\* C7 amended: every node that is still playing when stop is called stops
\* exactly when the fade-out ramp reaches 0, FadeOutSecs after the call, and
\* keeps doing so while the fade runs.
C7_PlayingNodesStopAtFadeEnd ==
    [][\A s \in Calls :
          /\ (s \in stopped' /\ s \notin stopped) =>
                /\ fadeLeft'[s] = FadeOutSecs
                /\ \A i \in DOMAIN allNodes[s] : Playing(allNodes[s][i]) =>
                      allNodes'[s][i].stopIn = fadeLeft'[s]
          /\ s \in stopped' =>
                \A i \in DOMAIN allNodes'[s] : Playing(allNodes'[s][i]) =>
                      allNodes'[s][i].stopIn = fadeLeft'[s]]_vars

C7_Witness ==
    \E s \in stopped :
        /\ fadeLeft[s] = FadeOutSecs
        /\ \E i \in DOMAIN allNodes[s] :
              Stoppable(allNodes[s][i]) /\ allNodes[s][i].stopIn = 0
        /\ \E i \in DOMAIN allNodes[s] :
              Stoppable(allNodes[s][i]) /\ allNodes[s][i].stopIn = FadeOutSecs

\* C8: a second stopBackgroundMusic() in a row changes nothing, and a stop
\* issued while Idle schedules no ramp, no node stop and no disconnect timer
\* and clears no timer.
C8_IdempotentStop ==
    [][/\ (stopsInRow >= 1 /\ stopsInRow' >= 1) =>
            UNCHANGED <<audioContextRef, backgroundMusicNodesRef,
                        breathingBellTimeoutRef, allNodes, timers, fadeLeft,
                        stopped, pc, outcome>>
       /\ (stopsInRow' >= 1 /\ backgroundMusicNodesRef = Null) =>
            UNCHANGED <<backgroundMusicNodesRef, breathingBellTimeoutRef,
                        allNodes, timers, fadeLeft>>]_vars

C8_Witness ==
    /\ stopsInRow = 2
    /\ \E s \in stopped : fadeLeft[s] = FadeOutSecs /\ LiveGraph(s)

\* C10: while the fade-out of a stopped soundscape is running the soundscape
\* record is still that soundscape's, so no new start is accepted.
C10_RecordKeptDuringFade ==
    \A s \in stopped : fadeLeft[s] > 0 => backgroundMusicNodesRef.owner = s


\* No source started by call s is playing and none of its timers is pending.
Quiet(s) ==
    /\ \A i \in DOMAIN allNodes[s] : ~Playing(allNodes[s][i])
    /\ TimersOf(s) = {}

\* A due strike cannot run because the soundscape has played MaxStrikes.
StrikeBoundReached ==
    \E t \in timers :
        /\ t.left = 0
        /\ t.kind \in {"interval", "bell"}
        /\ ~(t.kind = "bell" /\ isCancelled(cancelled[t.owner]))
        /\ strikes[t.owner] >=
              IF t.kind = "bell" THEN MaxBellStrikes ELSE MaxStrikes

\* C9: once the session's cleanup has cancelled a start and called stop,
\* eventually no source started by that start is playing and none of its
\* intervals or timeouts is pending (as far as the strike bound lets time
\* pass).
C9_CleanTeardown ==
    \A s \in Calls : (s \in cleaned) ~> (Quiet(s) \/ StrikeBoundReached)

C9_Witness ==
    \E s \in cleaned :
        /\ musicType[s] \in {GentleRain, OmChant}
        /\ outcome[s] = "promoted"
        /\ Quiet(s)
        /\ \A i \in DOMAIN allNodes[s] : ~allNodes[s][i].connected
        /\ ~StrikeBoundReached


\* Call s is made in this step.
Called(s) == pc[s] = "new" /\ pc'[s] # "new"

\* C11: a startBackgroundMusic call made while a soundscape is Active, of any
\* kind and with any predicate, returns at once: the soundscape record, every
\* node list, the timers and the bell timeout handle are unchanged and no
\* fetch is issued.
C11_StartWhileActiveNoOp ==
    [][\A s \in Calls : (Called(s) /\ backgroundMusicNodesRef # Null) =>
          /\ pc'[s] = "done"
          /\ outcome'[s] = "noop"
          /\ allNodes'[s] = <<>>
          /\ UNCHANGED <<backgroundMusicNodesRef, breathingBellTimeoutRef,
                         allNodes, timers>>]_vars

C11_Witness ==
    \E s \in Calls :
        /\ outcome[s] = "noop"
        /\ musicType[s] \in {GentleRain, TibetanSingingBowl}
        /\ ~cancelled[s]
        /\ backgroundMusicNodesRef # Null
        /\ backgroundMusicNodesRef.owner < s
        /\ allNodes[s] = <<>>

\* C12: a cue played while a soundscape is Active leaves the soundscape
\* record, its node list, its interval and the bell timeout handle unchanged,
\* and the cue's oscillator feeds its gain, which feeds the context output.
C12_CueIndependence ==
    [][(lastCue' # "none" /\ backgroundMusicNodesRef # Null) =>
          /\ UNCHANGED <<backgroundMusicNodesRef, breathingBellTimeoutRef,
                         allNodes, timers>>
          /\ \A i \in DOMAIN cueNodes' \ DOMAIN cueNodes :
                cueNodes'[i].to =
                    IF cueNodes'[i].type = "osc" THEN "gain" ELSE "destination"]_vars

C12_Witness ==
    /\ lastCue # "none"
    /\ Len(cueNodes) = 2
    /\ cueNodes[2].to = "destination"
    /\ backgroundMusicNodesRef.type \in {TibetanSingingBowl, BreathingBell}
    /\ TimersOf(backgroundMusicNodesRef.owner) # {}

\* C13: a startBackgroundMusic call with kind Off, or whose predicate is
\* already true, or made when no audio context can be had, creates no node,
\* issues no fetch, sets no timer and leaves the soundscape record as it was.
C13_RejectedStartCreatesNothing ==
    [][\A s \in Calls :
          (/\ Called(s)
           /\ \/ musicType'[s] = Off
              \/ cancelled[s]
              \/ audioContextRef' = "null") =>
          /\ pc'[s] = "done"
          /\ allNodes'[s] = <<>>
          /\ UNCHANGED <<backgroundMusicNodesRef, breathingBellTimeoutRef,
                         allNodes, timers>>]_vars

C13_Witness ==
    /\ supported
    /\ outcome[1] = "noop"
    /\ musicType[1] \in {GentleRain, AmbientHum}
    /\ cancelled[1]
    /\ backgroundMusicNodesRef = Null
    /\ allNodes[1] = <<>>

\* C14: after a sample load failed, no node the failed start created is
\* connected to the output (its master gain included) and none of its sources
\* is playing.
C14_FailedLoadLeavesNoGraph ==
    \A s \in Calls : outcome[s] = "failed" =>
        \A i \in DOMAIN allNodes[s] :
            ~allNodes[s][i].connected /\ ~Playing(allNodes[s][i])

\* C15: when a start that was loading a sample returns, it has logged the
\* load error exactly if the load failed and its predicate was false at that
\* moment; nothing else logs that error.
C15_LoadErrorLoggedIffNotCancelled ==
    [][\A s \in Calls :
          IF InFlight(s) /\ pc'[s] = "done"
          THEN (s \in loadErrorLogged') <=>
                   (outcome'[s] = "failed" /\ ~cancelled[s])
          ELSE (s \in loadErrorLogged') <=> (s \in loadErrorLogged)]_vars

C15_Witness ==
    \E s, r \in Calls :
        /\ outcome[s] = "failed" /\ s \in loadErrorLogged
        /\ outcome[r] = "failed" /\ r \notin loadErrorLogged
        /\ \E q \in Calls : outcome[q] = "failed" /\ cancelled[q]

\* C16: no exception escapes from playSound, startBackgroundMusic or
\* stopBackgroundMusic, whatever the context construction, the fetch, the
\* decode and the stop of an already stopped node do.
C16_NoFaultSurfaces == surfaced = {}

C16_Witness ==
    /\ cueNodes # <<>>
    /\ \E r \in Calls : outcome[r] = "failed"
    /\ \E s \in stopped :
          /\ fadeLeft[s] = FadeOutSecs
          /\ AlreadyStopped(allNodes[s])

\* C17: a failing construction of the audio context is logged at most once.
C17_UnsupportedLoggedOnce == unsupportedLogs <= 1

\* C18: at most one audio context is ever constructed, over all the session
\* screens mounted.
C18_SingletonContext == ctxConstructed <= 1

\* C19: once the engine holds a context, every later operation on that engine
\* gets that context and constructs no other.
C19_GetAudioContextIdempotent ==
    [][(audioContextRef = "ctx" /\ mounts' = mounts) =>
          /\ audioContextRef' = "ctx"
          /\ ctxConstructed' = ctxConstructed]_vars

C19_Witness ==
    /\ mounts = 1
    /\ ctxConstructed = 1
    /\ cueNodes # <<>>
    /\ \E s \in stopped : outcome[s] = "promoted"
    /\ \E s \in Calls : pc[s] = "done" /\ s \notin stopped

\* C20: playing a tone of the table adds one oscillator and one gain, the
\* oscillator feeding the gain and the gain the output; the oscillator is
\* started at once and stops after exactly the profile's duration (200 ms
\* for the chime).
C20_OneShotTone ==
    [][(lastCue' # "none" /\ cueNodes' # cueNodes) =>
          LET n == Len(cueNodes)
          IN /\ Len(cueNodes') = n + 2
             /\ SubSeq(cueNodes', 1, n) = cueNodes
             /\ cueNodes'[n + 1] =
                   [type |-> "osc", connected |-> TRUE,
                    stopIn |-> soundProfiles[lastCue'].duration, to |-> "gain"]
             /\ cueNodes'[n + 2] =
                   [type |-> "gain", connected |-> TRUE, stopIn |-> Never,
                    to |-> "destination"]
             /\ lastCue' = "chime" => cueNodes'[n + 1].stopIn = 200]_vars

C20_Witness ==
    /\ lastCue = "chime"
    /\ Len(cueNodes) = 2
    /\ Playing(cueNodes[1])
    /\ cueNodes[1].stopIn = 200

\* C21: the automation events a one-shot tone puts on its gain are, in order,
\* a linear ramp up to the profile's peak gain and an exponential ramp down
\* to a strictly positive floor that ends at the profile's duration.
C21_LinearThenExponential ==
    gainEvents # <<>> =>
        /\ Len(gainEvents) = 2
        /\ gainEvents[1].event = "linearRampToValueAtTime"
        /\ gainEvents[1].value = soundProfiles[lastCue].gain
        /\ gainEvents[2].event = "exponentialRampToValueAtTime"
        /\ gainEvents[2].value > 0
        /\ gainEvents[2].at = soundProfiles[lastCue].duration

\* C26: the stop of an Active soundscape clears its timers, schedules the
\* ramp over FadeOutSecs and the stop of every playing node, and leaves every
\* node connected; the disconnect comes later, in a step of its own, when no
\* timer of the soundscape is pending, the ramp has reached 0 and every node
\* has stopped.
C26_TeardownOrder ==
    [][\A s \in Calls :
          /\ (s \in stopped' /\ s \notin stopped) =>
                /\ TimersOf(s)' = {}
                /\ fadeLeft'[s] = FadeOutSecs
                /\ \A i \in DOMAIN allNodes[s] :
                      /\ Playing(allNodes[s][i]) =>
                            allNodes'[s][i].stopIn = FadeOutSecs
                      /\ allNodes'[s][i].connected = allNodes[s][i].connected
                /\ Pending("disconnect", s)' # {}
          /\ (\E t \in Pending("disconnect", s) : t \notin timers' /\ t.left = 0) =>
                /\ s \in stopped
                /\ TimersOf(s) = {}
                /\ fadeLeft[s] = 0
                /\ \A i \in DOMAIN allNodes[s] : ~Playing(allNodes[s][i])
                /\ \A i \in DOMAIN allNodes'[s] : ~allNodes'[s][i].connected]_vars

C26_Witness ==
    \E s \in stopped :
        /\ musicType[s] \in {AmbientHum, GentleRain}
        /\ Len(allNodes[s]) >= 2
        /\ Pending("disconnect", s) = {}
        /\ fadeLeft[s] = 0
        /\ \A i \in DOMAIN allNodes[s] :
              ~allNodes[s][i].connected /\ ~Playing(allNodes[s][i])

\* The delay, in seconds, claimed to follow the k-th strike of a bell.
ClaimedBellDelay(k) ==
    CASE k % 3 = 1 -> 4
      [] k % 3 = 2 -> 7
      [] k % 3 = 0 -> 8

\* C27: a BreathingBell strikes at its start and then each time its timeout
\* is due; the timeout set at the k-th strike is due 4, 7, 8, 4, 7, 8, ...
\* seconds later; while the bell is Active and not cancelled exactly one bell
\* timeout is pending.
C27_BellSchedule ==
    [][\A s \in Calls :
          /\ (strikes'[s] = strikes[s] + 1 /\ musicType'[s] = BreathingBell) =>
                /\ strikes[s] > 0 =>
                      \E t \in Pending("bell", s) : t.left = 0 /\ t \notin timers'
                /\ \E u \in timers' :
                      /\ u.left = ClaimedBellDelay(strikes'[s])
                      /\ Pending("bell", s)' = {u}
          /\ (/\ backgroundMusicNodesRef'.type = BreathingBell
              /\ backgroundMusicNodesRef'.owner = s
              /\ ~cancelled'[s]) =>
                Cardinality(Pending("bell", s)') = 1]_vars

C27_Witness ==
    \E s \in Calls :
        /\ backgroundMusicNodesRef.type = BreathingBell
        /\ backgroundMusicNodesRef.owner = s
        /\ ~cancelled[s]
        /\ strikes[s] = 4
        /\ \E t \in Pending("bell", s) : t.left = 4

Synthesized == {AmbientHum, TibetanSingingBowl, BreathingBell}

\* C28: a start of a synthesized kind made by the session's effect never
\* waits: in the step in which it is called it returns, and then it is the
\* Active soundscape or it was a no-op that created nothing.
C28_SynthesizedStartIsAtomic ==
    [][\A s \in Calls :
          /\ musicType'[s] \in Synthesized =>
                pc'[s] \notin {"fetch", "arrayBuffer", "decode"}
          /\ (Called(s) /\ musicType'[s] \in Synthesized) =>
                /\ pc'[s] = "done"
                /\ \/ /\ outcome'[s] = "promoted"
                      /\ backgroundMusicNodesRef'.owner = s
                      /\ backgroundMusicNodesRef'.type = musicType'[s]
                   \/ /\ outcome'[s] = "noop"
                      /\ allNodes'[s] = <<>>]_vars

C28_Witness ==
    \E s \in Calls :
        /\ sessPhase = "running"
        /\ sessCall = s
        /\ musicType[s] = BreathingBell
        /\ outcome[s] = "promoted"
        /\ backgroundMusicNodesRef.owner = s
        /\ strikes[s] = 1
        /\ \E t \in Pending("bell", s) : t.left = 4

\* C29: a TibetanSingingBowl strikes at its start and then only when its
\* interval fires; after k strikes its node list is the master gain followed
\* by 5 * k (oscillator, gain) pairs, all connected when they are created; and
\* once the soundscape is stopped no oscillator of the list plays longer than
\* the fade-out.
C29_BowlStrikes ==
    [][\A s \in Calls : musicType'[s] = TibetanSingingBowl =>
          /\ strikes'[s] # strikes[s] =>
                /\ strikes'[s] = strikes[s] + 1
                /\ \/ Called(s)
                   \/ \E t \in Pending("interval", s) : t.left = 0
                /\ \A i \in (DOMAIN allNodes'[s]) \ (DOMAIN allNodes[s]) :
                      i > 1 => allNodes'[s][i].connected \/ Called(s)
          /\ allNodes'[s] # <<>> =>
                /\ Len(allNodes'[s]) = 1 + 10 * strikes'[s]
                /\ \A i \in DOMAIN allNodes'[s] :
                      allNodes'[s][i].type =
                          IF i = 1 THEN "masterGain"
                          ELSE IF i % 2 = 0 THEN "osc" ELSE "gain"
          /\ s \in stopped' =>
                \A i \in DOMAIN allNodes'[s] :
                    Playing(allNodes'[s][i]) =>
                        /\ allNodes'[s][i].stopIn # Never
                        /\ allNodes'[s][i].stopIn <= fadeLeft'[s]]_vars

C29_Witness ==
    \E s \in stopped :
        /\ musicType[s] = TibetanSingingBowl
        /\ strikes[s] = MaxStrikes
        /\ Len(allNodes[s]) = 1 + 10 * MaxStrikes
        /\ fadeLeft[s] = FadeOutSecs
        /\ \E i \in DOMAIN allNodes[s] : allNodes[s][i].stopIn = FadeOutSecs

\* C30: whenever a soundscape record exists, the first node of its node list
\* is the master gain of that soundscape and no other node of the list is a
\* master gain, whatever the kind and however many strikes were appended.
C30_MasterGainFirst ==
    backgroundMusicNodesRef # Null =>
        LET nodes == allNodes[backgroundMusicNodesRef.owner]
        IN /\ nodes # <<>>
           /\ \A i \in DOMAIN nodes : (nodes[i].type = "masterGain") <=> (i = 1)

C30_Witness ==
    /\ backgroundMusicNodesRef.type = TibetanSingingBowl
    /\ strikes[backgroundMusicNodesRef.owner] = MaxStrikes
    /\ Len(allNodes[backgroundMusicNodesRef.owner]) = 1 + 10 * MaxStrikes
    /\ Master(backgroundMusicNodesRef.owner).type = "masterGain"

\* C22: isSpeechReady turns true only in a step in which an enumeration
\* returned at least one voice, turns true in every such step, never turns
\* false again, and speak() hands over an utterance only while it is true.
C22_SpeechReadiness ==
    [][/\ (isSpeechReady' /\ ~isSpeechReady) =>
             /\ platformVoices' > 0
             /\ voices' = platformVoices'
             /\ \/ speechPhase = "rendered" /\ speechPhase' = "mounted"
                \/ onvoiceschanged /\ platformVoices' # platformVoices
       /\ (/\ speechSupported
           /\ platformVoices' > 0
           /\ \/ speechPhase = "rendered" /\ speechPhase' = "mounted"
              \/ onvoiceschanged /\ platformVoices' # platformVoices) =>
             isSpeechReady'
       /\ isSpeechReady => isSpeechReady'
       /\ ~isSpeechReady' => voices' = 0
       /\ utterances' # utterances => isSpeechReady]_vars

C22_Witness ==
    /\ isSpeechReady
    /\ utterances > 0
    /\ voices > 0
    /\ platformVoices = 0

\* The inhale and exhale cues of the round so far.
BreathCues == SelectSeq(roundCues, LAMBDA c : c \in {"inhale", "exhale"})

\* C23: when a round enters Retention its breathing has played exactly
\* breathsPerRound inhale cues and breathsPerRound exhale cues, alternating,
\* the first an inhale.
C23_ExactBreaths ==
    phase = "Retention" =>
        /\ Len(BreathCues) = 2 * breathsPerRound
        /\ \A i \in DOMAIN BreathCues :
              BreathCues[i] = IF i % 2 = 1 THEN "inhale" ELSE "exhale"

\* C24: until the session ends the history is the one it began with; once it
\* has ended the history is that history with exactly one record in front,
\* whose rounds is the number of retention times, if there is a retention
\* time, and is unchanged if there is none.
C24_OneRecordPerSession ==
    sessionHistory =
        IF finishes > 0 /\ Len(retentionTimes) > 0
        THEN <<[rounds |-> Len(retentionTimes),
                retentionTimes |-> retentionTimes]>> \o history0
        ELSE history0

C24_Witness ==
    /\ finishes = 2
    /\ phase = "Finished"
    /\ history0 # <<>>
    /\ Len(sessionHistory) = Len(history0) + 1
    /\ sessionHistory[1].rounds = 2

C34_FinishOnce == finishes <= 1

\* The steps the phase may take.
PhaseSteps ==
    {<<"InitialPreparation", "Preparing">>, <<"Preparing", "Breathing">>,
     <<"Breathing", "Retention">>, <<"Retention", "Recovery">>,
     <<"Recovery", "Transition">>, <<"Recovery", "Finished">>,
     <<"Transition", "Preparing">>}

\* C35: the phase changes only along InitialPreparation, Preparing, Breathing,
\* Retention, Recovery and then Transition and Preparing while rounds are left
\* or Finished in the last round; Retention is left only by the user ending
\* the hold, which records the time of the hold, and never by a timer.
C35_PhaseOrder ==
    [][phase' # phase =>
          /\ <<phase, phase'>> \in PhaseSteps
          /\ phase' = "Transition" => currentRound < totalRounds
          /\ phase' = "Finished" => currentRound = totalRounds
          /\ phase = "Retention" =>
                /\ interval.kind = "retention"
                /\ interval'.kind = "recovery"
                /\ Len(retentionTimes') = Len(retentionTimes) + 1
                /\ retentionTimes'[Len(retentionTimes')] = timer]_vars

C35_Witness ==
    /\ phase = "Finished"
    /\ currentRound = 2
    /\ Len(roundCues) > 0
    /\ finishTimeout.pending

\* C36: the round is always from 1 to totalRounds; it changes only by one, in
\* the step that leaves Transition, and Transition is entered only while
\* currentRound < totalRounds.
C36_RoundInRange ==
    /\ [](1 <= currentRound /\ currentRound <= totalRounds)
    /\ [][/\ currentRound' # currentRound =>
                /\ phase = "Transition"
                /\ phase' # "Transition"
                /\ currentRound' = currentRound + 1
          /\ phase # "Transition" /\ phase' = "Transition" =>
                currentRound < totalRounds]_vars

C36_Witness ==
    /\ screen = "Session"
    /\ currentRound = 2
    /\ totalRounds = 2
    /\ phase = "Recovery"

\* The phases of a round whose hold has ended.
HoldEnded == {"Recovery", "Transition", "Finished"}

\* C37: the retention times number currentRound - 1 until the hold of the
\* round has ended and currentRound from then on, each one being added at the
\* end of the others by the end of a hold; the onFinish of a natural finish is
\* given all of them, totalRounds in number.
C37_OneTimePerRound ==
    /\ [](/\ Len(retentionTimes) =
                IF phase \in HoldEnded THEN currentRound ELSE currentRound - 1
          /\ finishTimeout.pending =>
                /\ finishTimeout.times = retentionTimes
                /\ Len(finishTimeout.times) = totalRounds)
    /\ [][retentionTimes' # retentionTimes =>
             /\ phase = "Retention"
             /\ retentionTimes' = Append(retentionTimes, timer)]_vars

C37_Witness ==
    /\ finishTimeout.pending
    /\ totalRounds = 2
    /\ finishTimeout.times = <<2, 0>>
    /\ finishes = 0

\* C31: in the engine of src/hooks/useAudio.ts, stopBackgroundMusic() on a
\* recorded BreathingBell leaves no bell timeout pending, however many bell
\* timeouts have fired.
C31_StopCancelsBell ==
    [][hookMusic.type = BreathingBell /\ hookMusic' = NoMusic =>
          \A t \in hookTimers' : t.kind # "bell"]_vars

\* A step of stopBackgroundMusic.
StopStep == stopsInRow' > 0

\* C32: a stop made while call s is loading leaves the call where it is, with
\* its nodes and its isCancelled() as they were; and when the load ends
\* without an error the call is promoted, and is the recorded soundscape, if
\* its isCancelled() is false, and returns cancelled only if it is true.
C32_StopLeavesLoad ==
    [][\A s \in Calls :
          /\ InFlight(s) /\ StopStep =>
                /\ pc'[s] = pc[s]
                /\ cancelled'[s] = cancelled[s]
                /\ allNodes'[s] = allNodes[s]
                /\ outcome'[s] = outcome[s]
          /\ InFlight(s) /\ pc'[s] = "done" /\ outcome'[s] # "failed" =>
                IF cancelled'[s]
                THEN outcome'[s] = "cancelled"
                ELSE /\ outcome'[s] = "promoted"
                     /\ backgroundMusicNodesRef' # Null
                     /\ backgroundMusicNodesRef'.owner = s]_vars

\* A stop has just been made in the last stage of a load that can still be
\* promoted.
C32_Witness ==
    /\ stopsInRow > 0
    /\ \E s \in Calls :
          /\ pc[s] = "decode"
          /\ ~cancelled[s]
          /\ backgroundMusicNodesRef = Null

\* C33: when a bell timeout of call s fires after the call's isCancelled() has
\* become true, no node is made, no bell is struck and no bell timeout of the
\* call is left.
C33_CancelledBellEnds ==
    [][\A s \in Calls : \A t \in Pending("bell", s) :
          cancelled[s] /\ t.left = 0 /\ t \notin timers' =>
             /\ Len(allNodes'[s]) = Len(allNodes[s])
             /\ strikes'[s] = strikes[s]
             /\ Pending("bell", s)' = {}]_vars

\* A bell that has struck more than once ended by itself: cancelled, never
\* stopped, no timeout left.
C33_Witness ==
    \E s \in Calls :
        /\ musicType[s] = BreathingBell
        /\ outcome[s] = "promoted"
        /\ cancelled[s]
        /\ strikes[s] >= 2
        /\ s \notin stopped
        /\ backgroundMusicNodesRef # Null
        /\ backgroundMusicNodesRef.owner = s
        /\ Pending("bell", s) = {}

====
